---- MODULE Spec2Model ----
(***************************************************************************)
(* Verification model of the RevOps assessments dashboards:                *)
(*   src/dashboard_cloud.py  the live dashboard (cached database fetch,    *)
(*                           password-gated refresh, date filter)          *)
(*   src/main.py             the batch exporter (result.csv, git push)     *)
(*   src/dashboard.py        the file-only dashboard (reads result.csv)    *)
(*                                                                         *)
(* Event timestamps are minutes since 2025-09-01T00:00 UTC; calendar dates *)
(* are day numbers relative to 2025-09-01; the wall clock of the live      *)
(* dashboard is in seconds.                                                *)
(***************************************************************************)
EXTENDS Integers, Sequences, FiniteSets, TLC

\* ------------------------------------------------------------------------
\* Program constants
\* ------------------------------------------------------------------------
TTL == 600
outcome_id == 1027
user_ids ==
  {1220, 12431, 3, 1336, 1137, 12432, 12271, 21, 12366, 32,
   1662, 12436, 12437, 12433, 1222, 1404, 12321, 1770, 12476, 12167,
   1992, 19, 12079, 12349, 12082, 12257, 6, 1956, 1785, 4,
   1494, 12231, 1205, 1214, 12478, 12480, 12481}
\* 2025-09-01 04:00 US/Eastern (EDT, UTC-4) = 2025-09-01 08:00 UTC
start_time == 480
MinutesPerDay == 1440
\* US/Eastern leaves daylight time on 2025-11-02 06:00 UTC
DstEnd == 89640
\* YEAR(ACTIVITY_DATE) = 2025: from 2025-01-01 (243 days before) to 2026-01-01
Year2025Start == -349920
Year2025End == 175680

\* Python's None is the empty option, a present value x is <<x>>.
None == <<>>
Some(x) == <<x>>
\* A missing name cell of a merged frame.
NaN == "NaN"

\* ------------------------------------------------------------------------
\* Sequence helpers
\* ------------------------------------------------------------------------
Front(s) == SubSeq(s, 1, Len(s) - 1)

SetMax(S) == CHOOSE x \in S : \A y \in S : y <= x

\* Stable ascending insertion of a <<key, item>> pair.
RECURSIVE InsertByKey(_, _)
InsertByKey(sorted, p) ==
  IF sorted = <<>> THEN <<p>>
  ELSE IF Head(sorted)[1] <= p[1]
       THEN <<Head(sorted)>> \o InsertByKey(Tail(sorted), p)
       ELSE <<p>> \o sorted

RECURSIVE SortPairs(_)
SortPairs(ps) ==
  IF ps = <<>> THEN <<>>
  ELSE InsertByKey(SortPairs(Front(ps)), ps[Len(ps)])

\* Rows of s in ascending order of key[i], ties in original order.
StableSort(s, key) ==
  LET ps == SortPairs([i \in DOMAIN s |-> <<key[i], s[i]>>])
  IN  [i \in DOMAIN ps |-> ps[i][2]]

RECURSIVE Flatten(_)
Flatten(ss) == IF ss = <<>> THEN <<>> ELSE Head(ss) \o Flatten(Tail(ss))

\* ------------------------------------------------------------------------
\* Time conversion (dashboard_cloud.py 126-137)
\* ------------------------------------------------------------------------
\* Mutant of ToEastern: the timestamps are left in UTC.
NoShift(t) == t

\* tz_localize('UTC').tz_convert('US/Eastern').tz_localize(None)
ToEastern(t) == IF t < DstEnd THEN t - 240 ELSE t - 300

\* .dt.date
DateOf(t) == t \div MinutesPerDay

\* The frame after the conversion block.  conv = "ok": the try block ran;
\* conv = "fallback": it raised and the except block used the raw column.
Convert(raw, conv) ==
  [i \in DOMAIN raw |->
     LET est == IF conv = "ok" THEN ToEastern(raw[i].ACTIVITY_DATE)
                ELSE raw[i].ACTIVITY_DATE
     IN  [USER_ID |-> raw[i].USER_ID,
          ACTIVITY_DATE |-> raw[i].ACTIVITY_DATE,
          ACTIVITY_DATE_EST |-> est,
          ACTIVITY_DATE_ONLY |-> DateOf(est)]]

\* ------------------------------------------------------------------------
\* Query (dashboard_cloud.py 102-119)
\* ------------------------------------------------------------------------
Qualifies(r) ==
  /\ r.OUTCOME_ID = outcome_id
  /\ r.USER_ID \in user_ids
  /\ r.ACTIVITY_DATE >= start_time

\* ORDER BY USER_ID, ACTIVITY_DATE DESC
OrderRows(rows) ==
  LET byDate == StableSort(rows, [i \in DOMAIN rows |-> 0 - rows[i].ACTIVITY_DATE])
  IN  StableSort(byDate, [i \in DOMAIN byDate |-> byDate[i].USER_ID])

\* SELECT USER_ID, ACTIVITY_DATE FROM FACT_ACTIVITY WHERE ... ORDER BY ...
Query(table) ==
  LET sel == SelectSeq(table, Qualifies)
  IN  OrderRows([i \in DOMAIN sel |->
        [USER_ID |-> sel[i].USER_ID, ACTIVITY_DATE |-> sel[i].ACTIVITY_DATE]])

\* SELECT MAX(ACTIVITY_DATE) FROM FACT_ACTIVITY WHERE YEAR(ACTIVITY_DATE) = 2025
MaxActivityDate2025(table) ==
  LET S == {table[i].ACTIVITY_DATE : i \in DOMAIN table}
      Y == {t \in S : t >= Year2025Start /\ t < Year2025End}
  IN  IF Y = {} THEN None ELSE Some(SetMax(Y))

\* ------------------------------------------------------------------------
\* Aggregation and roster join
\* ------------------------------------------------------------------------
\* df.groupby('USER_ID').agg(count, max).reset_index(): keys ascending.
GroupByUser(df) ==
  LET keys == StableSort(
                 [i \in DOMAIN df |-> df[i].USER_ID],
                 [i \in DOMAIN df |-> df[i].USER_ID])
      RECURSIVE Dedup(_)
      Dedup(s) == IF s = <<>> THEN <<>>
                  ELSE IF Len(s) > 1 /\ s[1] = s[2] THEN Dedup(Tail(s))
                  ELSE <<Head(s)>> \o Dedup(Tail(s))
      ks == Dedup(keys)
  IN  [k \in DOMAIN ks |->
         LET mine == {i \in DOMAIN df : df[i].USER_ID = ks[k]}
         IN  [USER_ID |-> ks[k],
              ASSESSMENTS_COMPLETED |-> Cardinality(mine),
              LAST_ASSESSMENT_TIME |->
                 SetMax({df[i].ACTIVITY_DATE_EST : i \in mine})]]

\* left.merge(roster, left_on='USER_ID', right_on='User_Id', how='left'):
\* every left row in order, once per matching roster row, or once with the
\* roster columns missing when no roster row matches.
LeftMerge(left, roster) ==
  Flatten([i \in DOMAIN left |->
    LET hits == SelectSeq(roster, LAMBDA r : r.User_Id = left[i].USER_ID)
    IN  IF hits = <<>>
        THEN << [l |-> left[i], FULL_NAME |-> NaN, LOGIN_ID |-> NaN] >>
        ELSE [j \in DOMAIN hits |->
                [l |-> left[i], FULL_NAME |-> hits[j].FULL_NAME,
                 LOGIN_ID |-> hits[j].LOGIN_ID]]])

\* merged[['FULL_NAME', 'LOGIN_ID', 'ASSESSMENTS_COMPLETED', 'LAST_ASSESSMENT_TIME']]
NamedColumns(m) ==
  [FULL_NAME |-> m.FULL_NAME, LOGIN_ID |-> m.LOGIN_ID,
   ASSESSMENTS_COMPLETED |-> m.l.ASSESSMENTS_COMPLETED,
   LAST_ASSESSMENT_TIME |-> m.l.LAST_ASSESSMENT_TIME]

RECURSIVE SumAssessments(_)
SumAssessments(t) ==
  IF t = <<>> THEN 0
  ELSE Head(t).ASSESSMENTS_COMPLETED + SumAssessments(Tail(t))

\* The roster file: state "present" with its rows, "missing" (read_csv
\* raises FileNotFoundError) or "unreadable" (read_csv raises another error).
RosterFile(state, rows) == [state |-> state, rows |-> rows]

\* dashboard_cloud.py 139-158: the table built inside get_data_from_database.
\* raised = TRUE: an exception other than FileNotFoundError left the inner try.
FetchTable(df, roster) ==
  LET grouped_df == GroupByUser(df)
  IN  CASE roster.state = "present" ->
             LET merged_df == LeftMerge(grouped_df, roster.rows)
             IN  [raised |-> FALSE,
                  table |-> [i \in DOMAIN merged_df |-> NamedColumns(merged_df[i])]]
        [] roster.state = "missing" ->
             [raised |-> FALSE, table |-> grouped_df]
        [] OTHER -> [raised |-> TRUE, table |-> <<>>]

\* dashboard_cloud.py 238-246: the date-range filter on the raw frame.
FilterByDate(raw_df, date_range) ==
  IF Len(date_range) = 2
  THEN SelectSeq(raw_df, LAMBDA r : /\ r.ACTIVITY_DATE_ONLY >= date_range[1]
                                    /\ r.ACTIVITY_DATE_ONLY <= date_range[2])
  ELSE raw_df

\* dashboard_cloud.py 249-256: the re-grouped frame (no frame is built when
\* the filter leaves no row).
FilteredGrouped(filtered_raw) ==
  IF Len(filtered_raw) > 0 THEN GroupByUser(filtered_raw) ELSE <<>>

\* dashboard_cloud.py 248-270: re-group and join of the filtered frame.
ReAggregate(filtered_raw, roster) ==
  IF Len(filtered_raw) > 0
  THEN LET filtered_grouped == FilteredGrouped(filtered_raw)
       IN  CASE roster.state = "present" ->
                  LET merged == LeftMerge(filtered_grouped, roster.rows)
                  IN  [raised |-> FALSE,
                       table |-> [i \in DOMAIN merged |-> NamedColumns(merged[i])]]
             [] roster.state = "missing" ->
                  [raised |-> FALSE,
                   table |-> [i \in DOMAIN filtered_grouped |->
                      [ASSESSMENTS_COMPLETED |-> filtered_grouped[i].ASSESSMENTS_COMPLETED,
                       LAST_ASSESSMENT_TIME |-> filtered_grouped[i].LAST_ASSESSMENT_TIME]]]
             [] OTHER -> [raised |-> TRUE, table |-> <<>>]
  ELSE [raised |-> FALSE, table |-> <<>>]

\* dashboard_cloud.py 291-293: sort_values('ASSESSMENTS_COMPLETED', ascending=False)
SortForDisplay(t) ==
  StableSort(t, [i \in DOMAIN t |-> 0 - t[i].ASSESSMENTS_COMPLETED])

\* The value get_data_from_database returns on its except branch (line 162).
NoData ==
  [df |-> None, last_fetched |-> None, max_activity_date_2025 |-> None,
   raw_df |-> None]

\* What the page shows for one run.
BlankView == [kind |-> "none", total_users |-> 0, total_assessments |-> 0,
              data_as_of |-> None, table |-> <<>>]

\* dashboard_cloud.py 235-323: the render branch for a returned value.
RenderPage(val, date_range, roster) ==
  IF val.df # None /\ val.raw_df # None
  THEN LET filtered_raw == FilterByDate(val.raw_df[1], date_range)
           re == ReAggregate(filtered_raw, roster)
           filtered_df == re.table
       IN  IF re.raised
           THEN [BlankView EXCEPT !.kind = "exception"]
           ELSE [kind |-> "table",
                 total_users |-> Len(filtered_df),
                 total_assessments |->
                    IF Len(filtered_df) > 0 THEN SumAssessments(filtered_df) ELSE 0,
                 data_as_of |->
                    IF val.max_activity_date_2025 = None THEN None
                    ELSE Some(ToEastern(val.max_activity_date_2025[1])),
                 table |-> SortForDisplay(filtered_df)]
  ELSE [BlankView EXCEPT !.kind = "unable"]

\* ------------------------------------------------------------------------
\* The batch exporter's pipeline (main.py 44-85)
\* ------------------------------------------------------------------------
\* SELECT USER_ID, COUNT(*), MAX(ACTIVITY_DATE) ... GROUP BY USER_ID
\* ORDER BY ASSESSMENTS_COMPLETED DESC (rows of equal count in USER_ID order)
BatchQuery(events) ==
  LET byUser == GroupByUser([i \in DOMAIN events |->
                   [USER_ID |-> events[i].USER_ID,
                    ACTIVITY_DATE_EST |-> events[i].ACTIVITY_DATE]])
  IN  StableSort(byUser,
                 [i \in DOMAIN byUser |-> 0 - byUser[i].ASSESSMENTS_COMPLETED])

\* main.py 64-85 on the qualifying events: the rows of the snapshot, or
\* raised when a statement raises (nothing in the script catches it): the
\* .dt accessor on the column of an empty result or tz_localize on aware or
\* malformed values (71), read_csv on a missing or unreadable roster (81).
BatchExport(events, column, roster_file) ==
  LET df == BatchQuery(events)
      merged_df == LeftMerge(df, roster_file.rows)
  IN  IF df = <<>> \/ column # "naive" \/ roster_file.state # "present"
      THEN [raised |-> TRUE, rows |-> <<>>]
      ELSE [raised |-> FALSE,
            rows |-> [i \in DOMAIN merged_df |->
               [USER_ID |-> merged_df[i].l.USER_ID,
                FULL_NAME |-> merged_df[i].FULL_NAME,
                LOGIN_ID |-> merged_df[i].LOGIN_ID,
                ASSESSMENTS_COMPLETED |-> merged_df[i].l.ASSESSMENTS_COMPLETED,
                LAST_ACTIVITY_DATE_EST |->
                   ToEastern(merged_df[i].l.LAST_ASSESSMENT_TIME)]]]

\* ------------------------------------------------------------------------
\* get_data_from_database (dashboard_cloud.py 33-162)
\* ------------------------------------------------------------------------
\* The conditions of one fetch attempt: whether all four credentials are set,
\* which of the four connection methods connect, and whether the two queries
\* run.
GoodEnv == [creds |-> TRUE, works |-> {1}, query_ok |-> TRUE]

Envs ==
  { GoodEnv,
    [GoodEnv EXCEPT !.works = {2, 4}],
    [GoodEnv EXCEPT !.creds = FALSE],
    [GoodEnv EXCEPT !.works = {}],
    [GoodEnv EXCEPT !.query_ok = FALSE] }

\* How the conversion block (126-137) goes for the ACTIVITY_DATE column the
\* database returns: "naive" UTC datetimes convert ("ok"); on "aware"
\* datetimes tz_localize raises and the except block uses the raw column
\* ("fallback"); on "malformed" values the except block raises as well
\* ("error").
ConversionOf(column) ==
  CASE column = "naive" -> "ok"
    [] column = "aware" -> "fallback"
    [] OTHER -> "error"

connection_methods == <<1, 2, 3, 4>>

\* dashboard_cloud.py 63-77: the first method whose test connection works.
FirstEngine(works) ==
  LET ok == SelectSeq(connection_methods, LAMBDA m : m \in works)
  IN  IF ok = <<>> THEN None ELSE Some(Head(ok))

\* dashboard_cloud.py 126-158: from the queried frame to the returned tuple.
\* raised: an exception left the block (to the except clause of line 160).
AfterQuery(queried, column, max_date, roster_file, clock) ==
  LET conv == ConversionOf(column)
      df == Convert(queried, conv)
      ft == FetchTable(df, roster_file)
  IN  IF conv = "error"
      THEN [raised |-> TRUE, warning |-> TRUE, val |-> NoData]
      ELSE [raised |-> ft.raised,
            warning |-> (conv = "fallback"),
            val |-> IF ft.raised THEN NoData
                    ELSE [df |-> Some(ft.table),
                          last_fetched |-> Some(clock),
                          max_activity_date_2025 |-> max_date,
                          raw_df |-> Some(df)]]

\* Mutant of GetData: the credentials check sits outside the try block, so
\* missing credentials raise out of the function.
GetDataUnguarded(env, data, roster_file, clock) ==
  [val |-> NoData, error |-> ~env.creds \/ env.works = {}, warning |-> FALSE,
   raised |-> ~env.creds]

\* The body of the function: the returned 4-tuple, whether st.error was
\* called (line 161), whether st.warning was called (line 134), and whether
\* an exception left the function (the try of line 35 spans the whole body
\* and its except clause catches every Exception, so none does).
GetData(env, data, roster_file, clock) ==
  LET failed == [val |-> NoData, error |-> TRUE, warning |-> FALSE,
                 raised |-> FALSE]
  IN  IF ~env.creds THEN failed
      ELSE IF FirstEngine(env.works) = None THEN failed
      ELSE IF ~env.query_ok THEN failed
      ELSE LET r == AfterQuery(Query(data.rows), data.column,
                               MaxActivityDate2025(data.rows), roster_file, clock)
           IN  IF r.raised THEN [failed EXCEPT !.warning = r.warning]
               ELSE [val |-> r.val, error |-> FALSE, warning |-> r.warning,
                     raised |-> FALSE]

\* ------------------------------------------------------------------------
\* Bounds of the live-dashboard model
\* ------------------------------------------------------------------------
Sessions == {"s1", "s2"}
MaxNow == 600
TickStep == 300
MaxClears == 1
MaxFetches == 3
MaxRows == 3

\* FACT_ACTIVITY at start, and the rows later inserts draw from.
InitialTable ==
  << [USER_ID |-> 3, ACTIVITY_DATE |-> 1410, OUTCOME_ID |-> 1027],
     [USER_ID |-> 99, ACTIVITY_DATE |-> 1500, OUTCOME_ID |-> 1027] >>
NewRows ==
  { [USER_ID |-> 21, ACTIVITY_DATE |-> 3000, OUTCOME_ID |-> 1027] }

Roster1 ==
  << [User_Id |-> 3, FULL_NAME |-> "Ann", LOGIN_ID |-> "ann@x"],
     [User_Id |-> 21, FULL_NAME |-> "Bob", LOGIN_ID |-> "bob@x"] >>
LiveRosters ==
  { RosterFile("present", Roster1), RosterFile("missing", <<>>),
    RosterFile("unreadable", <<>>) }

\* Values of the sidebar's date widgets: (d, d) for a single date.
LiveDateRanges == { <<0, 0>>, <<2, 2>> }
Passwords == {"", "s3cret", "guess"}
\* REFRESH_PASSWORD as configured (secrets or environment).
refresh_password == Some("s3cret")

VARIABLES
  now,         \* wall clock of the dashboard host, seconds
  db,          \* FACT_ACTIVITY: its rows and the kind of its ACTIVITY_DATE column
  roster,      \* opsrev.csv
  cacheGen,    \* number of st.cache_data.clear() calls so far: the cache
               \* object a call of get_data_from_database obtains
  slot,        \* per cache object, the memoized entry (None: cold)
  hist,        \* per cache object: how often the function body was entered
               \* for it, when its first result was stored, when it was made
  lastCall,    \* the latest finished call: its cache object, the entry it
               \* returned, whether it fetched and whether that fetch met a fault
  session,     \* per browser session: script position and widget state
  agg,         \* the aggregation pipelines applied to one set of inputs
  exp,         \* the batch exporter process (main.py)
  file,        \* result.csv
  fs           \* a browser session of the file-only dashboard (dashboard.py)

liveVars == <<now, db, roster, cacheGen, slot, hist, lastCall, session>>
aggVars == <<agg>>
batchVars == <<exp, file, fs>>

vars == <<liveVars, aggVars, batchVars>>

\* The parts of the system a specification leaves out stay in these states.
AggOff == [pc |-> "off"]
ExpOff == [pc |-> "off"]
\* result.csv: whether it exists, whether its header line is written, and the
\* data rows written so far.
NoFile == [exists |-> FALSE, header |-> FALSE, rows |-> <<>>]
FsOff == [pc |-> "off"]

RECURSIVE SumFetches(_)
SumFetches(g) == IF g < 0 THEN 0 ELSE hist[g].fetches + SumFetches(g - 1)

\* The fetch-call counter: entries into the body of get_data_from_database.
FetchCount == SumFetches(MaxClears)

\* Mutant of Fresh: the cache never serves an entry.
NeverFresh(entry, clock) == FALSE

\* @st.cache_data(ttl=600): an entry is served while now < storedAt + ttl.
Fresh(entry, clock) == entry # None /\ clock < entry[1].storedAt + TTL

\* What the page shows for one run, as far as the refresh flow is concerned:
\* which branch rendered, and the two count metrics.
NoPage == [kind |-> "none", total_users |-> 0, total_assessments |-> 0]

PageOf(view) ==
  [kind |-> view.kind, total_users |-> view.total_users,
   total_assessments |-> view.total_assessments]

NewSession ==
  [pc |-> "sidebar", refresh_clicked |-> FALSE, button |-> "none",
   password |-> "", shown |-> FALSE, date_range |-> <<0, 0>>,
   msg |-> "none", gen |-> 0, page |-> NoPage]

InitCache(columns) ==
  /\ now = 0
  /\ db \in [rows : {InitialTable}, column : columns]
  /\ cacheGen = 0
  /\ slot = [g \in 0..MaxClears |-> None]
  /\ hist = [g \in 0..MaxClears |->
               [fetches |-> 0, firstStore |-> None, clearedAt |-> 0]]
  /\ lastCall = None

InitRest == agg = AggOff /\ exp = ExpOff /\ file = NoFile /\ fs = FsOff

\* Two browser sessions on one dashboard process.
Init ==
  /\ InitRest
  /\ InitCache({"naive"})
  /\ roster = RosterFile("present", Roster1)
  /\ session = [s \in Sessions |-> NewSession]

\* One browser session; the roster file in any of its states.
InitSolo ==
  /\ InitRest
  /\ InitCache({"naive", "aware", "malformed"})
  /\ roster \in LiveRosters
  /\ session = [s \in Sessions |->
        IF s = "s1" THEN NewSession ELSE [NewSession EXCEPT !.pc = "closed"]]

Tick ==
  /\ now + TickStep <= MaxNow
  /\ now' = now + TickStep
  /\ UNCHANGED <<db, roster, cacheGen, slot, hist, lastCall, session>>
  /\ UNCHANGED <<aggVars, batchVars>>

DbInsert ==
  /\ Len(db.rows) < MaxRows
  /\ \E r \in NewRows : db' = [db EXCEPT !.rows = Append(@, r)]
  /\ UNCHANGED <<now, roster, cacheGen, slot, hist, lastCall, session>>
  /\ UNCHANGED <<aggVars, batchVars>>

\* A widget interaction starts a script run from the top.
StartRun(s, changes) ==
  /\ session[s].pc = "idle"
  /\ session' = [session EXCEPT ![s] =
        [changes EXCEPT !.pc = "sidebar", !.msg = "none", !.page = NoPage]]
  /\ UNCHANGED <<now, db, roster, cacheGen, slot, hist, lastCall>>
  /\ UNCHANGED <<aggVars, batchVars>>

SelectDate(s) ==
  \E dr \in LiveDateRanges :
    /\ dr # session[s].date_range
    /\ StartRun(s, [session[s] EXCEPT !.date_range = dr, !.button = "none"])

ClickRefresh(s) == StartRun(s, [session[s] EXCEPT !.button = "refresh"])

EnterPassword(s) ==
  \E p \in Passwords :
    /\ session[s].shown
    /\ p # session[s].password
    /\ StartRun(s, [session[s] EXCEPT !.password = p, !.button = "none"])

ClickSubmit(s) ==
  /\ session[s].shown
  /\ StartRun(s, [session[s] EXCEPT !.button = "submit"])

ClickCancel(s) ==
  /\ session[s].shown
  /\ StartRun(s, [session[s] EXCEPT !.button = "cancel"])

\* Mutant of PasswordMatches: any submitted password is accepted.
AnyPassword(password) == TRUE

\* dashboard_cloud.py 219: password == refresh_password
PasswordMatches(password) == Some(password) = refresh_password

\* dashboard_cloud.py 168-230: the sidebar's refresh flow of one run.
\* st.rerun() abandons the run and starts the next one from the top, in
\* which no button is pressed; a keyed widget that a finished run did not
\* render loses its value.
Sidebar(s) ==
  LET me == session[s]
      clicked == me.refresh_clicked \/ me.button = "refresh"
      submit == clicked /\ me.button = "submit"
      match == submit /\ PasswordMatches(me.password)
      cancel == clicked /\ me.button = "cancel" /\ ~match
  IN  /\ me.pc = "sidebar"
      /\ match => cacheGen < MaxClears
      /\ cacheGen' = IF match THEN cacheGen + 1 ELSE cacheGen
      /\ hist' = IF match THEN [hist EXCEPT ![cacheGen + 1].clearedAt = now]
                 ELSE hist
      /\ session' = [session EXCEPT ![s] =
            IF match \/ cancel
            THEN [me EXCEPT !.refresh_clicked = FALSE, !.button = "none",
                            !.msg = "none", !.pc = "sidebar"]
            ELSE [me EXCEPT !.refresh_clicked = clicked,
                            !.shown = clicked,
                            !.password = IF clicked THEN me.password ELSE "",
                            !.msg = IF submit THEN "incorrect" ELSE "none",
                            !.button = "none",
                            !.pc = "getdata"]]
      /\ UNCHANGED <<now, db, roster, slot, lastCall>>
      /\ UNCHANGED <<aggVars, batchVars>>

\* ------------------------------------------------------------------------
\* The cached call of get_data_from_database (dashboard_cloud.py 32-33, 233)
\*
\* st.cache_data keeps one cache object per decorated function in a
\* registry.  A call looks its cache object up, reads the entry, and on a
\* miss takes that object's compute lock, reads again, and only then runs
\* the function body and stores the result.  st.cache_data.clear() empties
\* the registry: calls that start afterwards obtain a new, cold cache object
\* with a lock of its own, while a call already under way finishes on the
\* object it holds.
\* ------------------------------------------------------------------------
\* Mutant of Computing: the compute lock is never seen as held.
NoLock(g) == {}

Computing(g) == {t \in Sessions : session[t].pc = "fetching" /\ session[t].gen = g}

\* dashboard_cloud.py 233-323: the call returns value val and the rest of
\* the run renders it; the run reads nothing shared after the return but
\* the roster file.
Returned(me, val) ==
  [me EXCEPT !.gen = 0,
             !.page = PageOf(RenderPage(val, me.date_range, roster)),
             !.pc = "idle"]

\* An exception left get_data_from_database: the run ends with the
\* exception on the page.
Escaped(me) ==
  [me EXCEPT !.gen = 0, !.page = [NoPage EXCEPT !.kind = "exception"],
             !.pc = "idle"]

\* Whether something a fetch depends on is broken: credentials missing, no
\* connection method connecting, a query failing, the conversion failing
\* beyond its fallback, or the roster file unreadable.
Faulty(env, data, roster_file) ==
  \/ ~env.creds
  \/ env.works = {}
  \/ ~env.query_ok
  \/ data.column = "malformed"
  \/ roster_file.state = "unreadable"

\* fetched: the call ran the function body; fault: and something was broken.
CallRecord(g, e, fetched, fault) ==
  Some([gen |-> g, entry |-> e, fetched |-> fetched, fault |-> fault])

\* Line 233 is reached: look the cache object up and read it.
CallStart(s) ==
  LET me == session[s]
      hit == Fresh(slot[cacheGen], now)
  IN  /\ me.pc = "getdata"
      /\ session' = [session EXCEPT ![s] =
            IF hit THEN Returned(me, slot[cacheGen][1].val)
            ELSE [me EXCEPT !.gen = cacheGen, !.pc = "wait"]]
      /\ lastCall' = IF hit THEN CallRecord(cacheGen, slot[cacheGen][1], FALSE, FALSE)
                     ELSE lastCall
      /\ UNCHANGED <<now, db, roster, cacheGen, slot, hist>>
      /\ UNCHANGED <<aggVars, batchVars>>

\* Mutant of MissUnderLock: a stored failure counts as a miss and is retried.
RetryFailed(g) == slot[g] = None \/ now >= slot[g][1].storedAt + TTL \/ slot[g][1].error

\* Whether a call that holds the compute lock still finds the entry missing.
MissUnderLock(g) == ~Fresh(slot[g], now)

\* The compute lock is taken; the entry is read a second time.
AcquireLock(s) ==
  LET me == session[s]
      miss == MissUnderLock(me.gen)
  IN  /\ me.pc = "wait"
      /\ Computing(me.gen) = {}
      /\ miss => FetchCount < MaxFetches
      /\ hist' = IF miss
                 THEN [hist EXCEPT ![me.gen].fetches = hist[me.gen].fetches + 1]
                 ELSE hist
      /\ session' = [session EXCEPT ![s] =
            IF miss THEN [me EXCEPT !.pc = "fetching"]
            ELSE Returned(me, slot[me.gen][1].val)]
      /\ lastCall' = IF miss THEN lastCall
                     ELSE CallRecord(me.gen, slot[me.gen][1], FALSE, FALSE)
      /\ UNCHANGED <<now, db, roster, cacheGen, slot>>
      /\ UNCHANGED <<aggVars, batchVars>>

\* The function body runs to its end; a returned value is stored and
\* returned to the caller; the lock is released either way.
FetchDone(s) ==
  LET me == session[s]
  IN  /\ me.pc = "fetching"
      /\ \E env \in Envs :
           LET r == GetData(env, db, roster, now)
               entry == [val |-> r.val, error |-> r.error,
                         warning |-> r.warning, storedAt |-> now]
           IN  IF r.raised
               THEN /\ session' = [session EXCEPT ![s] = Escaped(me)]
                    /\ UNCHANGED <<slot, hist, lastCall>>
               ELSE /\ slot' = [slot EXCEPT ![me.gen] = Some(entry)]
                    /\ hist' = [hist EXCEPT ![me.gen].firstStore =
                          IF @ = None THEN Some(now) ELSE @]
                    /\ session' = [session EXCEPT ![s] = Returned(me, r.val)]
                    /\ lastCall' = CallRecord(me.gen, entry, TRUE, Faulty(env, db, roster))
      /\ UNCHANGED <<now, db, roster, cacheGen>>
      /\ UNCHANGED <<aggVars, batchVars>>

SessionStep(s) ==
  \/ SelectDate(s)
  \/ ClickRefresh(s)
  \/ EnterPassword(s)
  \/ ClickSubmit(s)
  \/ ClickCancel(s)
  \/ Sidebar(s)
  \/ CallStart(s)
  \/ AcquireLock(s)
  \/ FetchDone(s)

Next ==
  \/ Tick
  \/ \E s \in Sessions : SessionStep(s)

Spec == Init /\ [][Next]_vars

NextSolo ==
  \/ Tick
  \/ DbInsert
  \/ \E s \in Sessions : SessionStep(s)

SpecSolo == InitSolo /\ [][NextSolo]_vars

\* ------------------------------------------------------------------------
\* The aggregation pipelines on drawn inputs
\*
\* One queried frame, one roster file and one date range are drawn; the
\* cached fetch (126-158), the render with its date filter (235-293) and the
\* batch exporter's pipeline (main.py 64-85) are applied to them.
\* ------------------------------------------------------------------------
MaxEvents == 3
\* Qualifying events of two users of the allow-list.  User 3 is the user the
\* rosters below know; user 12481 has no roster entry.  1410 is
\* 2025-09-01T23:30Z, 1450 is 2025-09-02T00:10Z, 1700 is 2025-09-02T04:20Z.
AggEvents ==
  [USER_ID : {3, 12481}, ACTIVITY_DATE : {1410, 1450, 1700}]
\* Frames as the query returns them: ordered by USER_ID, ACTIVITY_DATE DESC.
AggFrames ==
  { OrderRows(f) : f \in UNION { [1..n -> AggEvents] : n \in 0..MaxEvents } }
AggRosters ==
  { RosterFile("present", <<>>),
    RosterFile("present",
      << [User_Id |-> 3, FULL_NAME |-> "Ann", LOGIN_ID |-> "ann@x"] >>),
    RosterFile("present",
      << [User_Id |-> 3, FULL_NAME |-> "Ann", LOGIN_ID |-> "ann@x"],
         [User_Id |-> 3, FULL_NAME |-> "Ann B", LOGIN_ID |-> "annb@x"] >>),
    RosterFile("missing", <<>>),
    RosterFile("unreadable", <<>>) }
AggColumns == {"naive", "aware", "malformed"}
\* (d, d) for a single date, (d1, d2) for a range, a 1-tuple while only the
\* start of a range is picked.
AggDateRanges == { <<0, 0>>, <<1, 1>>, <<0, 1>>, <<0>> }

InitAgg ==
  /\ InitCache({"naive"})
  /\ roster = RosterFile("missing", <<>>)
  /\ session = [s \in Sessions |-> [NewSession EXCEPT !.pc = "closed"]]
  /\ exp = ExpOff /\ file = NoFile /\ fs = FsOff
  /\ agg \in [pc : {"input"}, raw : AggFrames, column : AggColumns,
              roster : AggRosters, date_range : AggDateRanges,
              got : {None}, grouped : {<<>>}, view : {BlankView},
              export : {None}]

\* get_data_from_database from line 126 on, the connection and the query
\* having succeeded: an exception is caught at line 160.
AggFetch ==
  /\ agg.pc = "input"
  /\ LET r == AfterQuery(agg.raw, agg.column,
                         MaxActivityDate2025(agg.raw), agg.roster, 0)
     IN  agg' = [agg EXCEPT !.pc = "fetched", !.got = Some(r)]
  /\ UNCHANGED <<liveVars, batchVars>>

\* The render of the returned value: 235-323.
AggRender ==
  /\ agg.pc = "fetched"
  /\ LET val == agg.got[1].val
     IN  agg' = [agg EXCEPT
           !.pc = "rendered",
           !.grouped = IF val.raw_df = None THEN <<>>
                       ELSE FilteredGrouped(FilterByDate(val.raw_df[1], agg.date_range)),
           !.view = RenderPage(val, agg.date_range, agg.roster)]
  /\ UNCHANGED <<liveVars, batchVars>>

\* main.py on the same events and roster.
AggExport ==
  /\ agg.pc = "input"
  /\ agg' = [agg EXCEPT !.pc = "exported",
                        !.export = Some(BatchExport(agg.raw, agg.column, agg.roster))]
  /\ UNCHANGED <<liveVars, batchVars>>

NextAgg ==
  \/ AggFetch
  \/ AggRender
  \/ AggExport

SpecAgg == InitAgg /\ [][NextAgg]_vars

\* ------------------------------------------------------------------------
\* The batch exporter (main.py) and the file-only dashboard (dashboard.py)
\*
\* The exporter runs as a process of its own (started by hand or by the
\* dashboard's refresh); the dashboard session reads result.csv in every run.
\* ------------------------------------------------------------------------
MaxExports == 2
MaxBatchEvents == 2

\* The qualifying events a run of the exporter finds in the database.
BatchFrames == {f \in AggFrames : Len(f) <= MaxBatchEvents}
BatchRosters == {RosterFile("present", Roster1), RosterFile("missing", <<>>)}

\* os.getenv('REFRESH_PASSWORD') (dashboard.py 42)
REFRESH_PASSWORD == Some("s3cret")

\* A completely written result.csv.
SnapshotOf(rows) == [exists |-> TRUE, header |-> TRUE, rows |-> rows]

\* The snapshot of an earlier export.
OldSnapshot ==
  SnapshotOf(BatchExport(<< [USER_ID |-> 3, ACTIVITY_DATE |-> 1410] >>,
                         "naive", RosterFile("present", Roster1)).rows)

\* The file-only dashboard's session: the position of the running script,
\* the value of the refresh button in this run, whether the password input
\* is on the page, the value the widget store holds for it, what the user
\* last entered, the message shown, whether main.py was run for this click,
\* and what the load of result.csv observed.
NewFs ==
  [pc |-> "idle", refresh |-> FALSE, input_shown |-> FALSE, password |-> "",
   typed |-> None, msg |-> "none", refreshed |-> FALSE, seen |-> None,
   page |-> "none"]

InitBatch ==
  /\ InitCache({"naive"})
  /\ roster = RosterFile("missing", <<>>)
  /\ session = [s \in Sessions |-> [NewSession EXCEPT !.pc = "closed"]]
  /\ agg = AggOff
  /\ file \in {NoFile, OldSnapshot}
  /\ exp \in [pc : {"idle"}, runs : {0}, roster : BatchRosters,
              column : {"naive", "aware"}, new : {<<>>}, old : {file},
              whole : {{file}}, stage : {"none"}, pushed : {FALSE}]
  /\ fs = NewFs

\* main.py 64-85 of a new run of the script: query, conversion, roster join.
\* An exception ends the script before result.csv is touched.
ExpBegin(events) ==
  LET r == BatchExport(events, exp.column, exp.roster)
  IN  [exp EXCEPT !.runs = @ + 1,
                  !.pc = IF r.raised THEN "crashed" ELSE "ready",
                  !.stage = "query",
                  !.new = r.rows,
                  !.old = file,
                  !.pushed = FALSE]

ExpStart ==
  /\ exp.pc \in {"idle", "done", "crashed"}
  /\ exp.runs < MaxExports
  /\ \E events \in BatchFrames : exp' = ExpBegin(events)
  /\ UNCHANGED <<file, fs, liveVars, aggVars>>

\* main.py 88: to_csv opens 'result.csv' for writing, which truncates it.
ExpOpen ==
  /\ exp.pc = "ready"
  /\ file' = [exists |-> TRUE, header |-> FALSE, rows |-> <<>>]
  /\ exp' = [exp EXCEPT !.pc = "writing", !.stage = "write"]
  /\ UNCHANGED <<fs, liveVars, aggVars>>

\* main.py 88: the next part of the output reaches the file: the header
\* line, then the rows in order.
ExpWrite ==
  /\ exp.pc = "writing"
  /\ file # SnapshotOf(exp.new)
  /\ file' = IF ~file.header THEN [file EXCEPT !.header = TRUE]
             ELSE [file EXCEPT !.rows = Append(@, exp.new[Len(@) + 1])]
  /\ UNCHANGED <<exp, fs, liveVars, aggVars>>

\* main.py 88: a write fails (disk full, process killed); nothing catches
\* it, the script ends and the file stays as far as it was written.
ExpWriteFail ==
  /\ exp.pc = "writing"
  /\ file # SnapshotOf(exp.new)
  /\ exp' = [exp EXCEPT !.pc = "crashed"]
  /\ UNCHANGED <<file, fs, liveVars, aggVars>>

\* main.py 88-90: to_csv returns, the file is closed.
ExpClose ==
  /\ exp.pc = "writing"
  /\ file = SnapshotOf(exp.new)
  /\ exp' = [exp EXCEPT !.pc = "saved", !.whole = @ \cup {file}]
  /\ UNCHANGED <<file, fs, liveVars, aggVars>>

\* main.py 94-100: git add, commit, push; a failure is caught and printed.
ExpGit ==
  /\ exp.pc = "saved"
  /\ \E ok \in BOOLEAN :
       exp' = [exp EXCEPT !.pc = "done", !.stage = "git", !.pushed = ok]
  /\ UNCHANGED <<file, fs, liveVars, aggVars>>

\* A script run of the dashboard starts; refresh is the value st.button
\* returns in it (True only in the run its click triggered).
FsRun(changes) ==
  /\ fs.pc = "idle"
  /\ fs' = [changes EXCEPT !.pc = "sidebar", !.msg = "none", !.page = "none",
                           !.seen = None, !.refreshed = FALSE]
  /\ UNCHANGED <<exp, file, liveVars, aggVars>>

\* The user clicks 'Refresh CSV from GitHub'.
FsClickRefresh == FsRun([fs EXCEPT !.refresh = TRUE, !.typed = None])

\* The user types into 'Enter password to refresh' and presses Enter.
FsEnterPassword ==
  /\ fs.input_shown
  /\ \E p \in Passwords \ {""} :
       FsRun([fs EXCEPT !.refresh = FALSE, !.password = p, !.typed = Some(p)])

\* The user types into the input and, without pressing Enter, clicks the
\* button again: the input's value is sent when it loses focus and the click
\* right after it; the script runner coalesces rerun requests that reach it
\* before the earlier one's run has ended, so one run sees both.
FsTypeAndClick ==
  /\ fs.input_shown
  /\ \E p \in Passwords \ {""} :
       FsRun([fs EXCEPT !.refresh = TRUE, !.password = p, !.typed = Some(p)])

\* The user changes a filter widget.
FsChangeFilter == FsRun([fs EXCEPT !.refresh = FALSE, !.typed = None])

\* dashboard.py 36-56.  The password input is created only in a run in
\* which the button returned True; a widget a run does not create loses
\* its stored value.  At "spinner" the script waits in subprocess.run for
\* main.py (line 46), then runs git pull (48) and reruns (52).
FsSidebar ==
  \/ /\ fs.pc = "sidebar"
     /\ IF fs.refresh
        THEN IF fs.password # ""
             THEN IF Some(fs.password) = REFRESH_PASSWORD
                  THEN /\ exp.pc \in {"idle", "done", "crashed"}
                       /\ exp.runs < MaxExports
                       /\ \E events \in BatchFrames : exp' = ExpBegin(events)
                       /\ fs' = [fs EXCEPT !.pc = "spinner", !.input_shown = TRUE,
                                          !.refreshed = TRUE]
                  ELSE /\ fs' = [fs EXCEPT !.pc = "load", !.input_shown = TRUE,
                                          !.msg = "incorrect"]
                       /\ UNCHANGED exp
             ELSE /\ fs' = [fs EXCEPT !.pc = "load", !.input_shown = TRUE]
                  /\ UNCHANGED exp
        ELSE /\ fs' = [fs EXCEPT !.pc = "load", !.input_shown = FALSE,
                                !.password = ""]
             /\ UNCHANGED exp
     /\ UNCHANGED <<file, liveVars, aggVars>>
  \/ /\ fs.pc = "spinner"
     /\ exp.pc \in {"done", "crashed"}
     /\ \E pulled \in BOOLEAN :
          fs' = IF exp.pc = "done" /\ pulled
                THEN [fs EXCEPT !.pc = "sidebar", !.refresh = FALSE]
                ELSE [fs EXCEPT !.pc = "load", !.msg = "failed"]
     /\ UNCHANGED <<exp, file, liveVars, aggVars>>

\* dashboard.py 59-98: read_csv('result.csv') and the page built from it.
\* A missing file is reported (68) and the script stops; an empty file makes
\* read_csv raise EmptyDataError and a file with no data row makes
\* int(df[...].max()) raise at line 76: both end the run with an exception.
FsLoad ==
  /\ fs.pc = "load"
  /\ fs' = [fs EXCEPT
        !.pc = "idle",
        !.refresh = FALSE,
        !.seen = Some(file),
        !.page = IF ~file.exists THEN "nofile"
                 ELSE IF ~file.header \/ file.rows = <<>> THEN "exception"
                 ELSE "table"]
  /\ UNCHANGED <<exp, file, liveVars, aggVars>>

NextBatch ==
  \/ ExpStart
  \/ ExpOpen
  \/ ExpWrite
  \/ ExpWriteFail
  \/ ExpClose
  \/ ExpGit
  \/ FsClickRefresh
  \/ FsEnterPassword
  \/ FsTypeAndClick
  \/ FsChangeFilter
  \/ FsSidebar
  \/ FsLoad

SpecBatch == InitBatch /\ [][NextBatch]_vars

\* ------------------------------------------------------------------------
\* Properties of the live dashboard
\* ------------------------------------------------------------------------
Fetching(g) == {t \in Sessions : session[t].pc = "fetching" /\ session[t].gen = g}

\* C1: a call of get_data_from_database that returns on the cache object of
\* the latest finished call (no clear in between), less than 600 seconds
\* after that call's entry was stored, returns the identical entry (same
\* table, same raw events, same fetched-at instant) without running the
\* function body: the fetch counter and the cache stay as they are.
C1_SecondCallServedFromCache ==
  [][\A s \in Sessions :
       LET me == session[s]
           g == IF me.pc = "getdata" THEN cacheGen ELSE me.gen
       IN  (/\ me.pc \in {"getdata", "wait", "fetching"}
            /\ session'[s].pc = "idle"
            /\ lastCall # None
            /\ lastCall[1].gen = g
            /\ now < lastCall[1].entry.storedAt + TTL)
           => /\ lastCall' # None
              /\ lastCall'[1].entry = lastCall[1].entry
              /\ ~lastCall'[1].fetched
              /\ FetchCount' = FetchCount
              /\ slot' = slot]_vars

\* C1 witness: 300 seconds after the only fetch, a session that has changed
\* its date filter has been served the entry stored at time 0 by a cache hit.
C1_Witness ==
  /\ now = 300
  /\ FetchCount = 1
  /\ lastCall # None
  /\ ~lastCall[1].fetched
  /\ lastCall[1].entry.storedAt = 0
  /\ \A s \in Sessions : session[s].pc = "idle" /\ session[s].page.kind = "table"
  /\ \E s \in Sessions : session[s].date_range = <<2, 2>>

\* C2: for every cache object made by a correct Submit Password: it starts
\* cold whatever the age of the entry it replaces; at most one session runs
\* the function body for it at a time; until its first result is stored the
\* only fetch counted for it is the one in flight; while that first result
\* is within its TTL exactly one fetch has been made for it, and the stored
\* fetched-at instant is not earlier than the clear (the model's clock has
\* a 300-second grain); and no call returns from it before a fetch was made.
C2_OneFetchAfterInvalidate ==
  \A g \in 1..MaxClears :
    /\ g > cacheGen => slot[g] = None /\ hist[g].fetches = 0
    /\ g <= cacheGen =>
         /\ Cardinality(Fetching(g)) <= 1
         /\ hist[g].firstStore = None =>
              /\ slot[g] = None
              /\ hist[g].fetches = Cardinality(Fetching(g))
         /\ (hist[g].firstStore # None /\ now < hist[g].firstStore[1] + TTL) =>
              /\ hist[g].fetches = 1
              /\ Fetching(g) = {}
              /\ slot[g] # None
              /\ slot[g][1].storedAt = hist[g].firstStore[1]
              /\ slot[g][1].storedAt >= hist[g].clearedAt
              /\ slot[g][1].val.last_fetched # None =>
                   slot[g][1].val.last_fetched[1] >= hist[g].clearedAt
         /\ (lastCall # None /\ lastCall[1].gen = g) => hist[g].fetches >= 1

\* C2 witness: the cache was cleared while the old entry was still within
\* its TTL; both sessions have since been served from the new cache object,
\* the latest by a hit, with one fetch made for it, at a later instant.
C2_Witness ==
  /\ cacheGen = 1
  /\ slot[0] # None
  /\ now < slot[0][1].storedAt + TTL
  /\ slot[1] # None
  /\ slot[1][1].storedAt > slot[0][1].storedAt
  /\ hist[1].fetches = 1
  /\ lastCall # None
  /\ lastCall[1].gen = 1
  /\ ~lastCall[1].fetched
  /\ \A s \in Sessions : session[s].pc = "idle" /\ session[s].page.kind = "table"

\* C3: the cache object changes only in a sidebar step that handles a Submit
\* Password whose password equals the configured secret.  A sidebar step that
\* handles a Refresh click, a Cancel or a mismatching submit leaves the cache
\* object, its entries and the fetch counter as they are; the mismatching
\* submit shows 'Incorrect password' and the run goes on to its data call;
\* and that call, finding an entry within its TTL, returns it unchanged
\* without a fetch while the error stays on the page.
C3_WrongCredentialKeepsCache ==
  [][/\ cacheGen' # cacheGen =>
          \E s \in Sessions :
             /\ session[s].pc = "sidebar"
             /\ session[s].button = "submit"
             /\ Some(session[s].password) = refresh_password
     /\ \A s \in Sessions :
          LET me == session[s]
              mismatch == me.button = "submit"
                             /\ Some(me.password) # refresh_password
          IN  /\ (/\ me.pc = "sidebar"
                  /\ session'[s] # me
                  /\ me.button \in {"refresh", "cancel"} \/ mismatch)
                 => /\ cacheGen' = cacheGen
                    /\ slot' = slot
                    /\ hist' = hist
                    /\ mismatch => /\ session'[s].msg = "incorrect"
                                   /\ session'[s].pc = "getdata"
              /\ (/\ me.pc = "getdata"
                  /\ me.msg = "incorrect"
                  /\ session'[s] # me
                  /\ slot[cacheGen] # None
                  /\ now < slot[cacheGen][1].storedAt + TTL)
                 => /\ session'[s].pc = "idle"
                    /\ session'[s].msg = "incorrect"
                    /\ lastCall' # None
                    /\ lastCall'[1].entry = slot[cacheGen][1]
                    /\ ~lastCall'[1].fetched
                    /\ slot' = slot
                    /\ FetchCount' = FetchCount]_vars

\* C3 witness: after a mismatching submit the page shows the error and the
\* table of the entry fetched before; the cache was never cleared.
C3_Witness ==
  /\ cacheGen = 0
  /\ FetchCount = 1
  /\ lastCall # None
  /\ ~lastCall[1].fetched
  /\ \E s \in Sessions :
       /\ session[s].pc = "idle"
       /\ session[s].msg = "incorrect"
       /\ session[s].password = "guess"
       /\ session[s].page.kind = "table"

FailureCached(g) ==
  /\ slot[g] # None
  /\ slot[g][1].error
  /\ slot[g][1].val = NoData
  /\ now < slot[g][1].storedAt + TTL

\* C11: a failed fetch occupies the cache like a successful one.  A call that
\* looks up, or waits for the lock of, a cache object holding a caught
\* failure within its TTL returns that no-data result, the page shows
\* 'Unable to load data', and neither the fetch counter nor the cache
\* changes.  The function body is entered for a cache object only when it
\* holds no entry (never filled, or new after an invalidation) or its entry
\* is 600 seconds old; and a new cache object appears only through a Submit
\* Password with the configured password.
C11_FailedFetchCached ==
  [][/\ \A s \in Sessions :
          LET me == session[s]
              g == IF me.pc = "getdata" THEN cacheGen ELSE me.gen
          IN  (/\ me.pc \in {"getdata", "wait"}
               /\ session'[s] # me
               /\ FailureCached(g))
              => /\ session'[s].pc = "idle"
                 /\ session'[s].page = [NoPage EXCEPT !.kind = "unable"]
                 /\ lastCall' # None
                 /\ lastCall'[1].entry = slot[g][1]
                 /\ ~lastCall'[1].fetched
                 /\ hist' = hist
                 /\ slot' = slot
     /\ \A g \in 0..MaxClears :
          hist'[g].fetches # hist[g].fetches =>
             /\ hist'[g].fetches = hist[g].fetches + 1
             /\ slot[g] = None \/ now >= slot[g][1].storedAt + TTL
     /\ cacheGen' # cacheGen =>
          \E s \in Sessions :
             /\ session[s].pc = "sidebar"
             /\ session[s].button = "submit"
             /\ Some(session[s].password) = refresh_password
             /\ cacheGen' = cacheGen + 1
             /\ slot'[cacheGen'] = None]_vars

\* C11 witness: the only fetch failed at time 0; 300 seconds later both
\* sessions show 'Unable to load data', the latest call having been served
\* the cached no-data result without a fetch.
C11_Witness ==
  /\ now = 300
  /\ FetchCount = 1
  /\ FailureCached(cacheGen)
  /\ slot[cacheGen][1].storedAt = 0
  /\ lastCall # None
  /\ ~lastCall[1].fetched
  /\ lastCall[1].entry = slot[cacheGen][1]
  /\ \A s \in Sessions : session[s].pc = "idle" /\ session[s].page.kind = "unable"

\* ------------------------------------------------------------------------
\* Properties of the aggregation pipelines
\* ------------------------------------------------------------------------
\* The value the cached fetch returned, once it returned a table.
AggVal == agg.got[1].val

AggReturned == agg.pc \in {"fetched", "rendered"} /\ AggVal.df # None

\* C4: the sum of ASSESSMENTS_COMPLETED over the joined table equals the
\* number of raw events in scope, for every roster: for the table built by
\* get_data_from_database (scope: all queried events) and for the table
\* re-aggregated after the date filter (scope: the events whose date is in
\* the selected range), whose sum is the 'Total Assessments' metric.
C4_SumEqualsEventCount ==
  /\ AggReturned => SumAssessments(AggVal.df[1]) = Len(agg.raw)
  /\ (agg.pc = "rendered" /\ agg.view.kind = "table") =>
        agg.view.total_assessments =
          Cardinality({i \in DOMAIN AggVal.raw_df[1] :
             \/ Len(agg.date_range) # 2
             \/ /\ AggVal.raw_df[1][i].ACTIVITY_DATE_ONLY >= agg.date_range[1]
                /\ AggVal.raw_df[1][i].ACTIVITY_DATE_ONLY <= agg.date_range[2]})

\* The users of the queried frame that have no row in the roster.
Unrostered ==
  {u \in {agg.raw[i].USER_ID : i \in DOMAIN agg.raw} :
     \A j \in DOMAIN agg.roster.rows : agg.roster.rows[j].User_Id # u}

EventsOf(u) == Cardinality({i \in DOMAIN agg.raw : agg.raw[i].USER_ID = u})

\* A table holds exactly one row for user u, carrying the user_id, the full
\* count and absent names.
OneUnnamedRow(t, u) ==
  /\ Cardinality({i \in DOMAIN t : "USER_ID" \in DOMAIN t[i] /\ t[i].USER_ID = u}) = 1
  /\ \A i \in DOMAIN t :
       ("USER_ID" \in DOMAIN t[i] /\ t[i].USER_ID = u) =>
          /\ t[i].ASSESSMENTS_COMPLETED = EventsOf(u)
          /\ t[i].FULL_NAME = NaN
          /\ t[i].LOGIN_ID = NaN

\* C5: with the roster file read, every user with a qualifying event and no
\* roster entry has one row in the joined result of the live dashboard and
\* of the batch snapshot, carrying its user_id, its count intact and absent
\* name fields.
C5_UnrosteredUserKeepsRow ==
  \A u \in Unrostered :
    /\ (AggReturned /\ agg.roster.state = "present") =>
          OneUnnamedRow(AggVal.df[1], u)
    /\ (agg.pc = "exported" /\ ~agg.export[1].raised) =>
          OneUnnamedRow(agg.export[1].rows, u)

\* The rows of an unjoined aggregate: user_id and count, no name column.
Unjoined(t) ==
  /\ Len(t) = Cardinality({agg.raw[i].USER_ID : i \in DOMAIN agg.raw})
  /\ \A i \in DOMAIN t :
       /\ "USER_ID" \in DOMAIN t[i]
       /\ t[i].ASSESSMENTS_COMPLETED = EventsOf(t[i].USER_ID)
       /\ "FULL_NAME" \notin DOMAIN t[i]

\* C6: with the roster file missing (and a column that converts), the cached
\* fetch returns the unjoined aggregate, the page after a filter that keeps
\* every event shows the unjoined aggregate, and the batch exporter produces
\* the unjoined aggregate; none of the three fails.
C6_MissingRosterDegrades ==
  (agg.roster.state = "missing" /\ agg.column = "naive" /\ agg.raw # <<>>) =>
    /\ agg.pc \in {"fetched", "rendered"} =>
          /\ ~agg.got[1].raised
          /\ Unjoined(AggVal.df[1])
    /\ (agg.pc = "rendered" /\ Len(agg.date_range) # 2) =>
          /\ agg.view.kind = "table"
          /\ Unjoined(agg.view.table)
    /\ agg.pc = "exported" =>
          /\ ~agg.export[1].raised
          /\ Unjoined(agg.export[1].rows)

\* The queried frame of the scenario: user 3 at 2025-09-02T00:10Z and at
\* 2025-09-01T23:30Z (ORDER BY USER_ID, ACTIVITY_DATE DESC).
LateEvening ==
  << [USER_ID |-> 3, ACTIVITY_DATE |-> 1450],
     [USER_ID |-> 3, ACTIVITY_DATE |-> 1410] >>

\* C8: with a column that converts and a complete date range, the re-grouped
\* frame holds, for every user, one row counting the events whose US/Eastern
\* calendar date (UTC-4 for all events drawn) lies in the range, and no row
\* for a user without such an event.  For the two events of user 3 at
\* 2025-09-01T23:30Z and 2025-09-02T00:10Z: the single date 2025-09-01 gives
\* one row with count 2, the single date 2025-09-02 gives no row.
C8_FilterUsesLocalDate ==
  (agg.pc = "rendered" /\ agg.column = "naive" /\ AggVal.raw_df # None
     /\ Len(agg.date_range) = 2) =>
    /\ \A u \in {agg.raw[i].USER_ID : i \in DOMAIN agg.raw} :
         LET local == {i \in DOMAIN agg.raw :
                        /\ agg.raw[i].USER_ID = u
                        /\ (agg.raw[i].ACTIVITY_DATE - 240) \div 1440 >= agg.date_range[1]
                        /\ (agg.raw[i].ACTIVITY_DATE - 240) \div 1440 <= agg.date_range[2]}
             rows == {k \in DOMAIN agg.grouped : agg.grouped[k].USER_ID = u}
         IN  /\ local = {} => rows = {}
             /\ local # {} =>
                  /\ Cardinality(rows) = 1
                  /\ \A k \in rows :
                       agg.grouped[k].ASSESSMENTS_COMPLETED = Cardinality(local)
    /\ agg.raw = LateEvening =>
         /\ agg.date_range = <<0, 0>> =>
               /\ Len(agg.grouped) = 1
               /\ agg.grouped[1].USER_ID = 3
               /\ agg.grouped[1].ASSESSMENTS_COMPLETED = 2
         /\ agg.date_range = <<1, 1>> => agg.grouped = <<>>

\* C8 witness: the two late-evening events filtered on 2025-09-01 have been
\* re-grouped into one row of count 2 and the page shows the table.
C8_Witness ==
  /\ agg.pc = "rendered"
  /\ agg.column = "naive"
  /\ agg.raw = LateEvening
  /\ agg.date_range = <<0, 0>>
  /\ Len(agg.grouped) = 1
  /\ agg.grouped[1].ASSESSMENTS_COMPLETED = 2
  /\ agg.view.kind = "table"

\* ------------------------------------------------------------------------
\* Properties of the snapshot file and the file-only dashboard
\* ------------------------------------------------------------------------
\* C9: result.csv is replaced as a whole: it is at every instant, and so
\* whatever a dashboard run reads from it is, the complete snapshot that was
\* there before the exporter's first run or the complete snapshot of one of
\* its runs; and after a run that failed while writing or while pushing,
\* the file is a complete snapshot (the previous one when the write failed).
C9_SnapshotReplacedWhole ==
  /\ exp.pc \notin {"writing"} \/ file = exp.old \/ file = SnapshotOf(exp.new)
  /\ fs.seen # None =>
        \/ fs.seen[1] \in exp.whole
        \/ exp.pc = "writing" /\ fs.seen[1] = SnapshotOf(exp.new)
  /\ (exp.pc = "crashed" /\ exp.stage = "write") => file = exp.old
  /\ (exp.pc = "done" /\ ~exp.pushed) => file \in exp.whole

\* C10: once the run triggered by entering a password into the input that a
\* click on 'Refresh CSV from GitHub' brought up has passed the sidebar
\* block: a password equal to REFRESH_PASSWORD has started the refresh
\* commands, and a different password has produced 'Incorrect password'
\* with no refresh command run.
C10_PasswordTriggersRefresh ==
  (fs.typed # None /\ fs.pc \in {"load", "idle"}) =>
     /\ fs.typed = REFRESH_PASSWORD => fs.refreshed
     /\ fs.typed # REFRESH_PASSWORD => fs.msg = "incorrect" /\ ~fs.refreshed

====
